---------------------------- MODULE Spec2Model ----------------------------
(***************************************************************************)
(* Model of the obce code generators:                                      *)
(*   - definition::generate (codegen/src/definition.rs), the expansion of  *)
(*     #[obce::definition] on a trait, and the macro entry point that      *)
(*     turns its Result into emitted items (macro/src/lib.rs);             *)
(*   - id::generate (codegen/src/id.rs), the expansion of obce::id!.       *)
(*                                                                         *)
(* Token streams are sequences of token strings.  Identifiers and string   *)
(* literal values are sequences of byte codes, so that they can be hashed. *)
(* The input of an expansion is an already parsed trait (syn::ItemTrait)   *)
(* whose attributes have well-formed argument lists.  Trait generics and   *)
(* supertraits are copied through by the code unchanged and are left out.  *)
(***************************************************************************)
EXTENDS Naturals, Sequences, FiniteSets

VARIABLES
    pc,          \* "parsed", "expanded", "built" or "looked_up"
    attrs,       \* arguments of #[obce::definition(...)]: a sequence of NestedMeta
    trait_item,  \* the trait the attribute is applied to
    expansion,   \* what the definition macro emitted for (attrs, trait_item)
    features,    \* the feature switches of the build that compiles the expansion
    active,      \* the trait declarations of the expansion that survive #[cfg]
    path,        \* the argument of obce::id!
    lookup       \* what the id macro emitted for path

vars == <<pc, attrs, trait_item, expansion, features, active, path, lookup>>

-----------------------------------------------------------------------------
(* Bounds of the explored inputs.                                          *)

MaxItems == 2
MaxSegments == 3
MaxAttrs == 2
MaxParams == 2
MaxPreds == 1

(* Largest value of the u16 that LitInt::base10_parse::<u16> accepts.      *)
U16_MAX == 65535

-----------------------------------------------------------------------------
(* Generic helpers.                                                        *)

SeqsUpTo(S, n) == UNION {[1..k -> S] : k \in 0..n}

Last(s) == s[Len(s)]

-----------------------------------------------------------------------------
(* utils::into_u16 / utils::into_u32: "a deterministic, stable hash of the *)
(* UTF-8 bytes of the name, truncated into the target width".  A 32-bit    *)
(* value is the pair <<high half, low half>> of 16-bit halves; the hash is *)
(* h := h * 31 + byte (mod 2^32) over the bytes, from 0.                   *)

RECURSIVE NameHash(_)
NameHash(bytes) ==
    IF bytes = <<>> THEN <<0, 0>>
    ELSE LET h == NameHash(SubSeq(bytes, 1, Len(bytes) - 1))
             low == h[2] * 31 + Last(bytes)
         IN  <<(h[1] * 31 + (low \div 65536)) % 65536, low % 65536>>

into_u32(name) == NameHash(name)

into_u16(name) == NameHash(name)[2]

-----------------------------------------------------------------------------
(* Syntax (the parts of syn's types that the generators read).             *)

NoLit == [kind |-> "None", int |-> 0, str |-> <<>>]
LitInt(n) == [kind |-> "Int", int |-> n, str |-> <<>>]
LitStr(s) == [kind |-> "Str", int |-> 0, str |-> s]
LitBool == [kind |-> "Bool", int |-> 0, str |-> <<>>]

(* NestedMeta::Meta(Meta::NameValue(path = lit)) and NestedMeta::Meta(Meta::Path(path)) *)
NameValue(p, l) == [kind |-> "NameValue", path |-> p, lit |-> l]
MetaPath(p) == [kind |-> "Path", path |-> p, lit |-> NoLit]

Attr(p, args) == [path |-> p, args |-> args]

Receiver == [kind |-> "Receiver", pat |-> "self", ty |-> "Self"]
Typed(p, t) == [kind |-> "Typed", pat |-> p, ty |-> t]

NoWhere == [some |-> FALSE, predicates |-> <<>>]
Where(preds) == [some |-> TRUE, predicates |-> preds]

(* A where-predicate `bounded: bound`, both token streams.                 *)
Predicate(bounded, bound) == [bounded |-> bounded, bound |-> bound]

(* The `default` of a method: absent, a body written by the user, or the  *)
(* call-building expression of fill_with_ink_data with its four holes.     *)
NoBlock == [kind |-> "None", id |-> 0, input |-> <<>>, output |-> <<>>, call |-> <<>>]
UserBlock == [kind |-> "User", id |-> 0, input |-> <<>>, output |-> <<>>, call |-> <<>>]

NoReturn == [kind |-> "Default", ty |-> ""]
Returns(t) == [kind |-> "Type", ty |-> t]

(* TraitItem::Method *)
MethodItem(as, name, inputs, output, wc, default) ==
    [kind |-> "Method", attrs |-> as, ident |-> name, inputs |-> inputs,
     output |-> output, where_clause |-> wc, default |-> default]

(* Any other TraitItem (an associated const or type).                      *)
ConstItem(name) ==
    [kind |-> "Const", attrs |-> <<>>, ident |-> name, inputs |-> <<>>,
     output |-> NoReturn, where_clause |-> NoWhere, default |-> NoBlock]

ItemTrait(name, items) == [ident |-> name, items |-> items]

-----------------------------------------------------------------------------
(* Results.                                                                *)

ERR_DEFAULT == "default implementation is not supported in chain extensions"
ERR_ITEM == "only methods are supported in trait definitions"
ERR_LITERAL == "id should be integer or string"
ERR_PARSE_INT == "number too large to fit in target type"
ERR_PATH == "id macro supports only two-segment paths (ChainExtension, ChainExtension::method)"
ERR_PARSE_PATH == "unexpected end of input, expected identifier"

NoMethod == [id |-> 0, hash |-> <<0, 0>>, input_tokens |-> <<>>, output_tokens |-> <<>>]

-----------------------------------------------------------------------------
(* codegen/src/definition.rs                                               *)

(* Variant: the literal is narrowed to 16 bits instead of being rejected.  *)
base10_parse_u16_wrapping(n) ==
    [ok |-> TRUE, error |-> "", some |-> TRUE, id |-> n % (U16_MAX + 1)]

(* Lit::Int(lit_int) => lit_int.base10_parse::<u16>()                      *)
base10_parse_u16(n) ==
    IF n <= U16_MAX
    THEN [ok |-> TRUE, error |-> "", some |-> TRUE, id |-> n]
    ELSE [ok |-> FALSE, error |-> ERR_PARSE_INT, some |-> FALSE, id |-> 0]

(* The match on value.lit of the first `id = ...` entry.                   *)
IdOfLit(lit) ==
    CASE lit.kind = "Int" -> base10_parse_u16(lit.int)
      [] lit.kind = "Str" -> [ok |-> TRUE, error |-> "", some |-> TRUE, id |-> into_u16(lit.str)]
      [] OTHER -> [ok |-> FALSE, error |-> ERR_LITERAL, some |-> FALSE, id |-> 0]

(* find_map over the arguments, then transpose: Ok(None), Ok(Some(id)) or  *)
(* the error of the first `id` entry.                                      *)
RECURSIVE find_id(_)
find_id(args) ==
    IF args = <<>> THEN [ok |-> TRUE, error |-> "", some |-> FALSE, id |-> 0]
    ELSE IF Head(args).kind = "NameValue" /\ Head(args).path = "id"
         THEN IdOfLit(Head(args).lit)
         ELSE find_id(Tail(args))

TraitAttrs_new(item, args) ==
    LET found == find_id(args) IN
    IF ~found.ok THEN [ok |-> FALSE, error |-> found.error, id |-> 0]
    ELSE [ok |-> TRUE, error |-> "",
          id |-> IF found.some THEN found.id ELSE into_u16(item.ident)]

IsObce(attr) == attr.path = "obce"
IsOther(attr) == ~IsObce(attr)
IsTyped(input) == input.kind = "Typed"

RECURSIVE AllArgs(_)
AllArgs(obce_attrs) ==
    IF obce_attrs = <<>> THEN <<>>
    ELSE Head(obce_attrs).args \o AllArgs(Tail(obce_attrs))

(* Variant: the `id` entry is looked for in every obce attribute.          *)
MethodId_any_attribute(obce_attrs, ident) ==
    LET found == find_id(AllArgs(obce_attrs)) IN
    IF ~found.ok THEN found
    ELSE IF found.some THEN found
    ELSE [ok |-> TRUE, error |-> "", some |-> TRUE, id |-> into_u16(ident)]

(* The method id: from the first obce attribute if it has an `id` entry,   *)
(* else from the method's name.                                            *)
MethodId(obce_attrs, ident) ==
    IF obce_attrs = <<>>
    THEN [ok |-> TRUE, error |-> "", some |-> TRUE, id |-> into_u16(ident)]
    ELSE LET found == find_id(Head(obce_attrs).args) IN
         IF ~found.ok THEN found
         ELSE IF found.some THEN found
         ELSE [ok |-> TRUE, error |-> "", some |-> TRUE, id |-> into_u16(ident)]

RECURSIVE Separated(_, _)
Separated(tokens, sep) ==
    IF Len(tokens) <= 1 THEN tokens
    ELSE <<Head(tokens), sep>> \o Separated(Tail(tokens), sep)

\* quote! of a parenthesised, comma-separated repetition of xs
ParenList(xs) == <<"(">> \o Separated(xs, ",") \o <<")">>

(* Variant: the receiver is not filtered out.                              *)
InputTys_with_receiver(method_item) ==
    [i \in 1..Len(method_item.inputs) |-> method_item.inputs[i].ty]

InputTys(method_item) ==
    LET typed == SelectSeq(method_item.inputs, IsTyped)
    IN  [i \in 1..Len(typed) |-> typed[i].ty]

OutputTokens(method_item) ==
    IF method_item.output.kind = "Type" THEN <<method_item.output.ty>> ELSE <<"(", ")">>

(* Variant: the check for a default body is missing.                       *)
HasDefault_unchecked(method_item) == FALSE

(* if let Some(default) = &method_item.default *)
HasDefault(method_item) == method_item.default.kind # "None"

(* The two halves of the partition of method_item.attrs.                   *)
ObceAttrs(method_item) == SelectSeq(method_item.attrs, IsObce)

(* Variant: the attributes are put back unpartitioned.                     *)
OtherAttrs_unpartitioned(method_item) == method_item.attrs

OtherAttrs(method_item) == SelectSeq(method_item.attrs, IsOther)

(* Variant: the key follows the `id` override when there is one.           *)
MethodHash_of_override(method_item) ==
    LET id == MethodId(ObceAttrs(method_item), method_item.ident)
    IN  IF id.ok /\ id.id # into_u16(method_item.ident)
        THEN <<0, id.id>>
        ELSE into_u32(method_item.ident)

(* let hash = into_u32(&method_item.sig.ident) *)
MethodHash(method_item) == into_u32(method_item.ident)

(* Method::new: the Result, with the method item as the call leaves it.    *)
Method_new(method_item) ==
    IF HasDefault(method_item)
    THEN [ok |-> FALSE, error |-> ERR_DEFAULT, method |-> NoMethod, item |-> method_item]
    ELSE
    LET stripped == [method_item EXCEPT !.attrs = OtherAttrs(method_item)]
        id == MethodId(ObceAttrs(method_item), method_item.ident)
    IN  IF ~id.ok
        THEN [ok |-> FALSE, error |-> id.error, method |-> NoMethod, item |-> stripped]
        ELSE [ok |-> TRUE, error |-> "",
              method |-> [id |-> id.id,
                          hash |-> MethodHash(method_item),
                          input_tokens |-> ParenList(InputTys(method_item)),
                          output_tokens |-> OutputTokens(method_item)],
              item |-> stripped]

(* Variant: the receiver is forwarded as well.                             *)
InputBindings_with_receiver(method_item) ==
    [i \in 1..Len(method_item.inputs) |->
        IF method_item.inputs[i].kind = "Receiver" THEN "self"
        ELSE method_item.inputs[i].pat]

(* filter_map over sig.inputs: the patterns of the typed parameters.       *)
InputBindings(method_item) ==
    LET typed == SelectSeq(method_item.inputs, IsTyped)
    IN  [i \in 1..Len(typed) |-> typed[i].pat]

(* Variant: the two bounds replace the where-clause of the method.         *)
InkWhereClause_replacing(method, method_item) ==
    Where(<< Predicate(method.input_tokens, <<"::scale::Encode">>),
             Predicate(method.output_tokens, <<"::scale::Decode">>) >>)

(* The where-clause after the two bounds are pushed, or created from them. *)
InkWhereClause(method, method_item) ==
    LET input_bound == Predicate(method.input_tokens, <<"::scale::Encode">>)
        output_bound == Predicate(method.output_tokens, <<"::scale::Decode">>)
    IN  IF method_item.where_clause.some
        THEN Where(method_item.where_clause.predicates \o <<input_bound, output_bound>>)
        ELSE Where(<<input_bound, output_bound>>)

(* Method::fill_with_ink_data: the method item after the call.             *)
fill_with_ink_data(method, method_item) ==
    [method_item EXCEPT
        !.where_clause = InkWhereClause(method, method_item),
        !.default = [kind |-> "ChainExtensionCall",
                     id |-> method.id,
                     input |-> method.input_tokens,
                     output |-> method.output_tokens,
                     call |-> <<"&">> \o ParenList(InputBindings(method_item))]]

(* Variant: items that fail are dropped (filter_map, not try_collect).     *)
RECURSIVE CollectMethods_skipping(_)
CollectMethods_skipping(items) ==
    IF items = <<>> THEN [ok |-> TRUE, error |-> "", methods |-> <<>>, items |-> <<>>]
    ELSE LET first == IF Head(items).kind = "Method"
                      THEN Method_new(Head(items))
                      ELSE [ok |-> FALSE, error |-> ERR_ITEM, method |-> NoMethod,
                            item |-> Head(items)]
             rest == CollectMethods_skipping(Tail(items))
         IN  IF ~first.ok THEN rest
             ELSE [ok |-> TRUE, error |-> "",
                   methods |-> <<first.method>> \o rest.methods,
                   items |-> <<first.item>> \o rest.items]

(* items.iter_mut().map(..).try_collect(): stops at the first error.       *)
RECURSIVE CollectMethods(_)
CollectMethods(items) ==
    IF items = <<>> THEN [ok |-> TRUE, error |-> "", methods |-> <<>>, items |-> <<>>]
    ELSE LET first == IF Head(items).kind = "Method"
                      THEN Method_new(Head(items))
                      ELSE [ok |-> FALSE, error |-> ERR_ITEM, method |-> NoMethod,
                            item |-> Head(items)]
         IN  IF ~first.ok
             THEN [ok |-> FALSE, error |-> first.error, methods |-> <<>>, items |-> <<>>]
             ELSE LET rest == CollectMethods(Tail(items)) IN
                  IF ~rest.ok THEN rest
                  ELSE [ok |-> TRUE, error |-> "",
                        methods |-> <<first.method>> \o rest.methods,
                        items |-> <<first.item>> \o rest.items]

(* impl MethodDescription<#hash> for dyn #trait_name { ID, Input, Output } *)
MethodDescription(trait_name, method) ==
    [trait |-> trait_name, hash |-> method.hash, id |-> method.id,
     input |-> method.input_tokens, output |-> method.output_tokens]

(* Variant: the descriptors are emitted from the last method to the first. *)
MethodDescriptions_reversed(trait_name, methods) ==
    [i \in 1..Len(methods) |->
        MethodDescription(trait_name, methods[Len(methods) + 1 - i])]

(* methods.iter().map(..): one descriptor per method, in order.            *)
MethodDescriptions(trait_name, methods) ==
    [i \in 1..Len(methods) |-> MethodDescription(trait_name, methods[i])]

(* impl ExtensionDescription for dyn #trait_name { ID }                    *)
ExtensionDescription(trait_name, trait_id) == [trait |-> trait_name, id |-> trait_id]

(* Variant: every item is filled from the first method.                   *)
FillAll_from_first(items, methods) ==
    [i \in 1..Len(items) |-> fill_with_ink_data(methods[1], items[i])]

(* ink_trait_item.items.iter_mut().zip(methods.iter()).for_each(..)        *)
FillAll(items, methods) ==
    [i \in 1..Len(items) |-> fill_with_ink_data(methods[i], items[i])]

NoTokens ==
    [extension_descriptions |-> <<>>, method_descriptions |-> <<>>, traits |-> <<>>]

(* definition::generate *)
definition_generate(args, item) ==
    LET trait_attrs == TraitAttrs_new(item, args) IN
    IF ~trait_attrs.ok
    THEN [ok |-> FALSE, error |-> trait_attrs.error, tokens |-> NoTokens]
    ELSE
    LET collected == CollectMethods(item.items) IN
    IF ~collected.ok
    THEN [ok |-> FALSE, error |-> collected.error, tokens |-> NoTokens]
    ELSE
    LET methods == collected.methods
        stripped_trait == [item EXCEPT !.items = collected.items]
        ink_trait_item == [stripped_trait EXCEPT !.items = FillAll(collected.items, methods)]
    IN  [ok |-> TRUE, error |-> "",
         tokens |->
            [extension_descriptions |-> <<ExtensionDescription(item.ident, trait_attrs.id)>>,
             method_descriptions |-> MethodDescriptions(item.ident, methods),
             traits |-> << [cfg |-> "substrate", item |-> stripped_trait],
                           [cfg |-> "ink", item |-> ink_trait_item] >>]]

-----------------------------------------------------------------------------
(* macro/src/lib.rs                                                        *)

(* #[proc_macro_attribute] definition: the items that replace the trait.   *)
definition(args, item) ==
    LET result == definition_generate(args, item) IN
    IF result.ok
    THEN [compile_error |-> <<>>,
          extension_descriptions |-> result.tokens.extension_descriptions,
          method_descriptions |-> result.tokens.method_descriptions,
          traits |-> result.tokens.traits]
    ELSE [compile_error |-> <<result.error>>,
          extension_descriptions |-> <<>>,
          method_descriptions |-> <<>>,
          traits |-> <<>>]

(* #[proc_macro] id is further down, after id::generate.                   *)

-----------------------------------------------------------------------------
(* codegen/src/id.rs                                                       *)

NoReference == [description |-> "", extension |-> <<>>, hash |-> <<0, 0>>]

(* syn::parse2::<Path>: a path has at least one segment.                   *)
parse_path(input) ==
    IF input = <<>>
    THEN [ok |-> FALSE, error |-> ERR_PARSE_PATH, segments |-> <<>>]
    ELSE [ok |-> TRUE, error |-> "", segments |-> input]

(* Variant: the two-segment arm hashes the first segment of the window.   *)
id_generate_first_segment(input) ==
    LET parsed == parse_path(input) IN
    IF ~parsed.ok
    THEN [ok |-> FALSE, error |-> parsed.error, reference |-> NoReference]
    ELSE
    LET segments == parsed.segments IN
    CASE Len(segments) = 1 ->
            [ok |-> TRUE, error |-> "",
             reference |-> [description |-> "ExtensionDescription",
                            extension |-> segments[1], hash |-> <<0, 0>>]]
      [] Len(segments) = 2 ->
            [ok |-> TRUE, error |-> "",
             reference |-> [description |-> "MethodDescription",
                            extension |-> segments[1],
                            hash |-> into_u32(segments[1])]]
      [] OTHER -> [ok |-> FALSE, error |-> ERR_PATH, reference |-> NoReference]

(* Variant: a longer path is read by its last two segments.               *)
id_generate_last_two(input) ==
    LET parsed == parse_path(input) IN
    IF ~parsed.ok
    THEN [ok |-> FALSE, error |-> parsed.error, reference |-> NoReference]
    ELSE
    LET segments == parsed.segments
        n == Len(segments)
    IN  IF n = 1
        THEN [ok |-> TRUE, error |-> "",
              reference |-> [description |-> "ExtensionDescription",
                             extension |-> segments[1], hash |-> <<0, 0>>]]
        ELSE [ok |-> TRUE, error |-> "",
              reference |-> [description |-> "MethodDescription",
                             extension |-> segments[n - 1],
                             hash |-> into_u32(segments[n])]]

(* id::generate *)
id_generate(input) ==
    LET parsed == parse_path(input) IN
    IF ~parsed.ok
    THEN [ok |-> FALSE, error |-> parsed.error, reference |-> NoReference]
    ELSE
    LET segments == parsed.segments IN
    CASE Len(segments) = 1 ->
            [ok |-> TRUE, error |-> "",
             reference |-> [description |-> "ExtensionDescription",
                            extension |-> segments[1], hash |-> <<0, 0>>]]
      [] Len(segments) = 2 ->
            [ok |-> TRUE, error |-> "",
             reference |-> [description |-> "MethodDescription",
                            extension |-> segments[1],
                            hash |-> into_u32(segments[2])]]
      [] OTHER -> [ok |-> FALSE, error |-> ERR_PATH, reference |-> NoReference]

(* #[proc_macro] id (macro/src/lib.rs): the expression that replaces the call. *)
id(input) ==
    LET result == id_generate(input) IN
    IF result.ok
    THEN [compile_error |-> <<>>, reference |-> <<result.reference>>]
    ELSE [compile_error |-> <<result.error>>, reference |-> <<>>]

-----------------------------------------------------------------------------
(* The build that compiles an expansion: #[cfg(feature = "...")] keeps a   *)
(* declaration exactly when its feature is switched on.                    *)

cfg_strip(traits, enabled) ==
    LET Kept(t) == t.cfg \in enabled IN SelectSeq(traits, Kept)

-----------------------------------------------------------------------------
(* The explored inputs.                                                    *)

Name_a == <<97>>
Name_Aa == <<65, 97>>
Name_BB == <<66, 66>>
Name_T == <<84>>
Name_U == <<85>>
Name_nested == <<110>>
Str_named == <<110, 45, 109>>

MethodNames == {Name_a, Name_Aa, Name_BB}

Obce(args) == Attr("obce", args)
IdInt(n) == NameValue("id", LitInt(n))
IdStr(s) == NameValue("id", LitStr(s))
IdBool == NameValue("id", LitBool)

Plain(name) == MethodItem(<<>>, name, <<Receiver>>, NoReturn, NoWhere, NoBlock)

(* Arguments of #[obce::definition(...)] and the name of the trait.        *)
TraitInputs ==
    {[attrs |-> as, ident |-> Name_T] :
        as \in { <<>>, <<IdInt(123)>>, <<IdInt(65536)>>, <<IdStr(Str_named)>>, <<IdBool>>,
                 <<MetaPath("testing"), IdInt(123)>> }}
    \cup {[attrs |-> <<>>, ident |-> Name_U]}

(* Trait items for traits of several items: a plain method under each      *)
(* name, and the plain method `a` changed in one respect.                  *)
Items ==
    {Plain(n) : n \in MethodNames}
    \cup {MethodItem(<<Obce(<<arg>>)>>, n, <<Receiver>>, NoReturn, NoWhere, NoBlock) :
            arg \in {IdInt(456)}, n \in {Name_a, Name_Aa}}
    \cup {MethodItem(<<Obce(<<arg>>)>>, Name_a, <<Receiver>>, NoReturn, NoWhere, NoBlock) :
            arg \in {IdInt(65536), IdStr(Str_named), IdBool}}
    \cup {MethodItem(<<>>, Name_a, <<Typed("x", "u32")>>, Returns("u64"), NoWhere, NoBlock),
          MethodItem(<<>>, Name_a, <<Receiver, Typed("x", "u32"), Typed("y", "u64")>>,
                     NoReturn, Where(<<Predicate(<<"T">>, <<"Clone">>)>>), NoBlock),
          MethodItem(<<Attr("doc", <<>>), Obce(<<IdInt(7)>>)>>, Name_a, <<Receiver>>,
                     NoReturn, NoWhere, NoBlock),
          MethodItem(<<Obce(<<MetaPath("weight")>>), Obce(<<IdInt(456)>>)>>, Name_a,
                     <<Receiver>>, NoReturn, NoWhere, NoBlock),
          MethodItem(<<>>, Name_a, <<Receiver>>, NoReturn, NoWhere, UserBlock),
          ConstItem(Name_a)}

(* Method declarations for traits of one method: every attribute list up   *)
(* to MaxAttrs on a plain method, and every signature without attributes.  *)
Attributes ==
    {Obce(<<IdInt(456)>>), Obce(<<IdInt(65536)>>), Obce(<<IdStr(Str_named)>>),
     Obce(<<IdBool>>), Obce(<<MetaPath("weight")>>),
     Obce(<<MetaPath("weight"), IdInt(7)>>),
     Attr("doc", <<>>), Attr("inline", <<>>)}

Params == {Typed("x", "u32"), Typed("y", "u64")}

Predicates == {Predicate(<<"T">>, <<"Clone">>), Predicate(<<"U">>, <<"Copy">>)}

WhereClauses == {NoWhere} \cup {Where(ps) : ps \in SeqsUpTo(Predicates, MaxPreds)}

AttrDecls ==
    {MethodItem(as, n, <<Receiver>>, NoReturn, NoWhere, NoBlock) :
        as \in SeqsUpTo(Attributes, MaxAttrs), n \in MethodNames}

SigDecls ==
    {MethodItem(<<>>, Name_a, recv \o ps, out, wc, NoBlock) :
        recv \in {<<>>, <<Receiver>>}, ps \in SeqsUpTo(Params, MaxParams),
        out \in {NoReturn, Returns("u64")}, wc \in WhereClauses}

Decls == AttrDecls \cup SigDecls \cup {Plain(Name_a) , ConstItem(Name_a)}
    \cup {MethodItem(<<>>, Name_a, <<Receiver>>, NoReturn, NoWhere, UserBlock)}

(* Arguments of obce::id!: k segments, the last two naming the trait and m. *)
PathOf(k, m) ==
    CASE k = 0 -> <<>>
      [] k = 1 -> <<Name_T>>
      [] OTHER -> [i \in 1..(k - 2) |-> Name_nested] \o <<Name_T, m>>

Paths == {PathOf(k, m) : k \in 0..MaxSegments, m \in MethodNames}

FeatureSets == SUBSET {"substrate", "ink"}

-----------------------------------------------------------------------------
(* The state machine: one expansion of #[obce::definition], then either a  *)
(* build of the expansion or an expansion of obce::id!.                    *)

NoExpansion ==
    [compile_error |-> <<>>, extension_descriptions |-> <<>>,
     method_descriptions |-> <<>>, traits |-> <<>>]

NoLookup == [compile_error |-> <<>>, reference |-> <<>>]

InitWith(trait_inputs, item_lists) ==
    /\ pc = "parsed"
    /\ \E t \in trait_inputs, items \in item_lists :
          /\ attrs = t.attrs
          /\ trait_item = ItemTrait(t.ident, items)
    /\ expansion = NoExpansion
    /\ features = {}
    /\ active = <<>>
    /\ path = <<>>
    /\ lookup = NoLookup

Init == InitWith(TraitInputs, SeqsUpTo(Items, MaxItems))

InitDecl == InitWith({[attrs |-> <<>>, ident |-> Name_T]}, {<<d>> : d \in Decls})

Expand ==
    /\ pc = "parsed"
    /\ pc' = "expanded"
    /\ expansion' = definition(attrs, trait_item)
    /\ UNCHANGED <<attrs, trait_item, features, active, path, lookup>>

Build ==
    /\ pc = "expanded"
    /\ pc' = "built"
    /\ \E enabled \in FeatureSets :
          /\ features' = enabled
          /\ active' = cfg_strip(expansion.traits, enabled)
    /\ UNCHANGED <<attrs, trait_item, expansion, path, lookup>>

Lookup ==
    /\ pc = "expanded"
    /\ pc' = "looked_up"
    /\ \E p \in Paths :
          /\ path' = p
          /\ lookup' = id(p)
    /\ UNCHANGED <<attrs, trait_item, expansion, features, active>>

Next == Expand \/ Build \/ Lookup

Spec == Init /\ [][Next]_vars

SpecDecl == InitDecl /\ [][Next]_vars

-----------------------------------------------------------------------------
(* Vocabulary of the properties.                                           *)

Expanded == pc # "parsed"

(* definition::generate accepted the trait: the macro emitted declarations. *)
Accepted == Expanded /\ expansion.compile_error = <<>>

Declared == trait_item.items

Descriptors == expansion.method_descriptions

NoDeclarations ==
    /\ expansion.extension_descriptions = <<>>
    /\ expansion.method_descriptions = <<>>
    /\ expansion.traits = <<>>

IsIdEntry(arg) == arg.kind = "NameValue" /\ arg.path = "id"

(* The `id = ...` entries of an argument list.                             *)
IdEntries(args) == SelectSeq(args, IsIdEntry)

(* The `id = ...` entries a method carries, over all its obce attributes.  *)
RECURSIVE MethodIdEntries(_)
MethodIdEntries(as) ==
    IF as = <<>> THEN <<>>
    ELSE (IF Head(as).path = "obce" THEN IdEntries(Head(as).args) ELSE <<>>)
         \o MethodIdEntries(Tail(as))

ObceCount(as) == Cardinality({k \in 1..Len(as) : as[k].path = "obce"})

(* A declaration with one place at most where an override can stand.       *)
SingleOverride(item) == ObceCount(item.attrs) <= 1 /\ Len(MethodIdEntries(item.attrs)) <= 1

TooLarge(entries) ==
    entries # <<>> /\ entries[1].lit.kind = "Int" /\ entries[1].lit.int > 65535

NotALiteralOfId(entries) ==
    entries # <<>> /\ entries[1].lit.kind \notin {"Int", "Str"}

ExpectedId(entries, name) ==
    IF entries = <<>> THEN into_u16(name)
    ELSE IF entries[1].lit.kind = "Int" THEN entries[1].lit.int
    ELSE into_u16(entries[1].lit.str)

-----------------------------------------------------------------------------
(* The descriptors an emitted reference selects: the impls of the          *)
(* description trait for `dyn extension` with the reference's key.         *)

MatchingMethods(ref) ==
    {i \in 1..Len(Descriptors) :
        Descriptors[i].trait = ref.extension /\ Descriptors[i].hash = ref.hash}

MatchingExtensions(ref) ==
    {i \in 1..Len(expansion.extension_descriptions) :
        expansion.extension_descriptions[i].trait = ref.extension}

LookedUpInterface ==
    pc = "looked_up" /\ Accepted /\ path = <<trait_item.ident>>

LookedUpMethod(i) ==
    pc = "looked_up" /\ Accepted /\ path = <<trait_item.ident, Declared[i].ident>>

UniqueHash(i) ==
    \A j \in 1..Len(Declared) :
        j # i => into_u32(Declared[j].ident) # into_u32(Declared[i].ident)

InterfaceReferenceResolves ==
    LookedUpInterface =>
        /\ Len(lookup.reference) = 1
        /\ lookup.reference[1].description = "ExtensionDescription"
        /\ MatchingExtensions(lookup.reference[1]) = {1}

(* C1 as stated: for every accepted interface and every method m declared  *)
(* in it, the reference emitted for `Interface` selects the interface      *)
(* descriptor, and the reference emitted for `Interface::m` selects the    *)
(* descriptor emitted for m and no other, so it resolves to m's id.        *)
C1_ResolvesToMethodId ==
    /\ InterfaceReferenceResolves
    /\ \A i \in 1..Len(Declared) :
          LookedUpMethod(i) =>
              /\ Len(lookup.reference) = 1
              /\ lookup.reference[1].description = "MethodDescription"
              /\ MatchingMethods(lookup.reference[1]) = {i}

(* C1 amended: the reference emitted for `Interface::m` carries the key    *)
(* that definition::generate emitted for m (the 32-bit hash of m's name),  *)
(* with or without `id` overrides, and it selects m's descriptor alone,    *)
(* hence m's id, when no other method of the interface has a name with     *)
(* the same 32-bit hash; the reference emitted for `Interface` selects     *)
(* the interface descriptor.                                               *)
C1_ReferenceMatchesEmittedKey ==
    /\ InterfaceReferenceResolves
    /\ \A i \in 1..Len(Declared) :
          LookedUpMethod(i) =>
              /\ Len(lookup.reference) = 1
              /\ lookup.reference[1].description = "MethodDescription"
              /\ lookup.reference[1].extension = Descriptors[i].trait
              /\ lookup.reference[1].hash = Descriptors[i].hash
              /\ lookup.reference[1].hash = into_u32(Declared[i].ident)
              /\ i \in MatchingMethods(lookup.reference[1])
              /\ UniqueHash(i) => MatchingMethods(lookup.reference[1]) = {i}

(* A lookup of an overridden method next to a method with another hash.    *)
C1_Witness ==
    \E i \in 1..Len(Declared) :
        /\ LookedUpMethod(i)
        /\ Len(Declared) = 2
        /\ UniqueHash(i)
        /\ MethodIdEntries(Declared[i].attrs) # <<>>
        /\ IdEntries(attrs) # <<>>
        /\ MatchingMethods(lookup.reference[1]) = {i}
        /\ Descriptors[i].id = 456

-----------------------------------------------------------------------------
C2_WitnessOverflow ==
    /\ Expanded
    /\ \E i \in 1..Len(Declared) :
          SingleOverride(Declared[i]) /\ TooLarge(MethodIdEntries(Declared[i].attrs))
    /\ expansion.compile_error = <<ERR_PARSE_INT>>

-----------------------------------------------------------------------------
(* C3: for every method of an accepted interface, the key of its           *)
(* MethodDescription is the 32-bit hash of its declared name, whatever     *)
(* `id` override (none, integer, string) it carries.                       *)
C3_HashIsOfName ==
    Accepted =>
        /\ Len(Descriptors) = Len(Declared)
        /\ \A i \in 1..Len(Declared) :
              Descriptors[i].hash = into_u32(Declared[i].ident)

(* An accepted method whose id comes from an override, not from its name.  *)
C3_Witness ==
    /\ Accepted
    /\ Len(Declared) = 1
    /\ MethodIdEntries(Declared[1].attrs) # <<>>
    /\ Descriptors[1].id # into_u16(Declared[1].ident)
    /\ Descriptors[1].hash = into_u32(Declared[1].ident)

-----------------------------------------------------------------------------
(* The override the derivation of a method id reads, and what makes a      *)
(* declaration one that Method::new takes.                                 *)

RECURSIVE FirstObceEntries(_)
FirstObceEntries(as) ==
    IF as = <<>> THEN <<>>
    ELSE IF Head(as).path = "obce" THEN IdEntries(Head(as).args)
    ELSE FirstObceEntries(Tail(as))

ValidOverride(entries) == ~TooLarge(entries) /\ ~NotALiteralOfId(entries)

HasBody(item) == item.kind = "Method" /\ item.default.kind # "None"

ValidOrWithBody(item) ==
    /\ item.kind = "Method"
    /\ HasBody(item) \/ ValidOverride(FirstObceEntries(item.attrs))

(* C4: if a method of the interface carries a default body, expansion      *)
(* fails and emits no declaration, wherever the method stands; when the    *)
(* interface attribute and the other methods are valid, the error is       *)
(* 'default implementation is not supported'.                              *)
C4_DefaultBodyRejected ==
    (Expanded /\ \E i \in 1..Len(Declared) : HasBody(Declared[i])) =>
        /\ Len(expansion.compile_error) = 1
        /\ NoDeclarations
        /\ (ValidOverride(IdEntries(attrs))
              /\ \A i \in 1..Len(Declared) : ValidOrWithBody(Declared[i]))
           => expansion.compile_error = <<ERR_DEFAULT>>

(* A method with a body after a valid method with an override.             *)
C4_Witness ==
    /\ Expanded
    /\ Len(Declared) = 2
    /\ ~HasBody(Declared[1]) /\ ValidOrWithBody(Declared[1])
    /\ MethodIdEntries(Declared[1].attrs) # <<>>
    /\ HasBody(Declared[2])
    /\ expansion.compile_error = <<ERR_DEFAULT>>
    /\ NoDeclarations

-----------------------------------------------------------------------------
(* C5: the id macro on a path of three or more segments fails with the     *)
(* unsupported-path error and emits no reference; it emits a reference     *)
(* only for paths of one or of two segments.                               *)
C5_LongPathRejected ==
    pc = "looked_up" =>
        /\ Len(path) >= 3 =>
              /\ lookup.compile_error = <<ERR_PATH>>
              /\ lookup.reference = <<>>
        /\ lookup.reference # <<>> <=> Len(path) \in {1, 2}
        /\ lookup.reference = <<>> <=> Len(lookup.compile_error) = 1

(* nested::Trait::extension_method was looked up.                          *)
C5_Witness ==
    /\ pc = "looked_up"
    /\ Len(path) = 3
    /\ path[1] = Name_nested
    /\ lookup.compile_error = <<ERR_PATH>>
    /\ lookup.reference = <<>>

-----------------------------------------------------------------------------
(* C6: in every build configuration (every combination of the `substrate`  *)
(* and `ink` switches) at most one of the two emitted trait declarations   *)
(* is active.                                                              *)
C6_AtMostOneCopyActive ==
    pc = "built" => Len(active) <= 1

-----------------------------------------------------------------------------
(* The two emitted copies of the trait.                                    *)

CopyA == expansion.traits[1].item
CopyB == expansion.traits[2].item

TwoCopies ==
    /\ Len(expansion.traits) = 2
    /\ expansion.traits[1].cfg = "substrate"
    /\ expansion.traits[2].cfg = "ink"

RECURSIVE WithoutObce(_)
WithoutObce(as) ==
    IF as = <<>> THEN <<>>
    ELSE IF Head(as).path = "obce" THEN WithoutObce(Tail(as))
    ELSE <<Head(as)>> \o WithoutObce(Tail(as))

CodecBounds == {<<"::scale::Encode">>, <<"::scale::Decode">>}

(* C7: the copy emitted under `substrate` is the input trait with the      *)
(* `obce` attributes of its methods removed: every method keeps its name,  *)
(* parameters, return type, where-clause and other attributes in order,    *)
(* gains no body and no Encode/Decode bound.                               *)
C7_CopyAIsInputWithoutObce ==
    Accepted =>
        /\ TwoCopies
        /\ CopyA.ident = trait_item.ident
        /\ Len(CopyA.items) = Len(Declared)
        /\ \A i \in 1..Len(Declared) :
              /\ CopyA.items[i].kind = "Method"
              /\ CopyA.items[i].ident = Declared[i].ident
              /\ CopyA.items[i].inputs = Declared[i].inputs
              /\ CopyA.items[i].output = Declared[i].output
              /\ CopyA.items[i].where_clause = Declared[i].where_clause
              /\ CopyA.items[i].attrs = WithoutObce(Declared[i].attrs)
              /\ CopyA.items[i].default.kind = "None"
              /\ \A k \in 1..Len(CopyA.items[i].where_clause.predicates) :
                    CopyA.items[i].where_clause.predicates[k].bound \notin CodecBounds

(* An accepted method with an `obce` attribute and another attribute.      *)
C7_Witness ==
    /\ Accepted
    /\ Len(Declared) = 1
    /\ ObceCount(Declared[1].attrs) = 1
    /\ Len(Declared[1].attrs) = 2
    /\ Len(CopyA.items[1].attrs) = 1

(* An accepted method with a where-clause, parameters and a return type.   *)
C7_WitnessSignature ==
    /\ Accepted
    /\ Len(Declared) = 1
    /\ Declared[1].where_clause.some
    /\ Len(Declared[1].inputs) = 3
    /\ Declared[1].output.kind = "Type"
    /\ CopyA.items[1] = Declared[1]

-----------------------------------------------------------------------------
(* C8: in the copy emitted under `ink` every method body is the call-      *)
(* building expression, and the id, input type and output type in it are   *)
(* the ID, Input and Output of the MethodDescription emitted for that same *)
(* method.                                                                 *)
C8_StubAgreesWithDescriptor ==
    Accepted =>
        /\ TwoCopies
        /\ Len(CopyB.items) = Len(Declared)
        /\ Len(Descriptors) = Len(Declared)
        /\ \A i \in 1..Len(Declared) :
              /\ CopyB.items[i].ident = Declared[i].ident
              /\ Descriptors[i].hash = into_u32(Declared[i].ident)
              /\ CopyB.items[i].default.kind = "ChainExtensionCall"
              /\ CopyB.items[i].default.id = Descriptors[i].id
              /\ CopyB.items[i].default.input = Descriptors[i].input
              /\ CopyB.items[i].default.output = Descriptors[i].output

(* Two methods whose descriptors differ in id, input and output.           *)
C8_Witness ==
    /\ Accepted
    /\ Len(Declared) = 2
    /\ Descriptors[1].id # Descriptors[2].id
    /\ Descriptors[1].input # Descriptors[2].input
    /\ Descriptors[1].output # Descriptors[2].output
    /\ CopyB.items[2].default.id = Descriptors[2].id

-----------------------------------------------------------------------------
RECURSIVE TypedTypes(_)
TypedTypes(inputs) ==
    IF inputs = <<>> THEN <<>>
    ELSE (IF Head(inputs).kind = "Receiver" THEN <<>> ELSE <<Head(inputs).ty>>)
         \o TypedTypes(Tail(inputs))

(* tokens is `(` t1 `,` t2 ... `)` for the types tys                       *)
IsTupleOf(tokens, tys) ==
    /\ Len(tokens) = (IF tys = <<>> THEN 2 ELSE 2 * Len(tys) + 1)
    /\ tokens[1] = "("
    /\ tokens[Len(tokens)] = ")"
    /\ \A k \in 1..Len(tys) : tokens[2 * k] = tys[k]
    /\ \A k \in 1..(Len(tys) - 1) : tokens[2 * k + 1] = ","

(* C9: for every method without a default body the captured input type is  *)
(* the parenthesised list of the declared types of its typed parameters,   *)
(* in order, without the receiver -- `()` for none, `(T)` for one -- and   *)
(* the captured output type is the declared return type, or `()` when      *)
(* none is declared.  `a(x: u32) -> u64` gives `(u32)` and `u64`;          *)
(* `b(self)` gives `()` and `()`.                                          *)
C9_SignatureExtraction ==
    Accepted =>
        \A i \in 1..Len(Declared) :
            /\ IsTupleOf(Descriptors[i].input, TypedTypes(Declared[i].inputs))
            /\ Declared[i].output.kind = "Type" =>
                  Descriptors[i].output = <<Declared[i].output.ty>>
            /\ Declared[i].output.kind = "Default" =>
                  Descriptors[i].output = <<"(", ")">>
            /\ (Declared[i].inputs = <<Typed("x", "u32")>>
                  /\ Declared[i].output = Returns("u64")) =>
                  (Descriptors[i].input = <<"(", "u32", ")">>
                     /\ Descriptors[i].output = <<"u64">>)
            /\ (Declared[i].inputs = <<Receiver>> /\ Declared[i].output = NoReturn) =>
                  (Descriptors[i].input = <<"(", ")">>
                     /\ Descriptors[i].output = <<"(", ")">>)

(* A method with a receiver, two typed parameters and a return type.       *)
C9_Witness ==
    /\ Accepted
    /\ Len(Declared) = 1
    /\ Declared[1].inputs = <<Receiver, Typed("x", "u32"), Typed("y", "u64")>>
    /\ Declared[1].output = Returns("u64")
    /\ Descriptors[1].input = <<"(", "u32", ",", "u64", ")">>
    /\ Descriptors[1].output = <<"u64">>

-----------------------------------------------------------------------------
C10_WitnessLiteral ==
    /\ Expanded
    /\ Len(Declared) = 2
    /\ ~HasBody(Declared[1]) /\ ValidOrWithBody(Declared[1])
    /\ Declared[2].kind = "Method" /\ ~HasBody(Declared[2])
    /\ NotALiteralOfId(MethodIdEntries(Declared[2].attrs))
    /\ expansion.compile_error = <<ERR_LITERAL>>
    /\ NoDeclarations

-----------------------------------------------------------------------------
(* C12: on success exactly one interface descriptor is emitted, binding    *)
(* the interface to its id, and exactly one method descriptor per declared *)
(* method, in declaration order, keyed by the interface and the 32-bit     *)
(* hash of the method's name and carrying that method's id, input type and *)
(* output type; methods whose name hashes differ get distinct keys.        *)
C12_OneDescriptorPerMethod ==
    Accepted =>
        /\ Len(expansion.extension_descriptions) = 1
        /\ expansion.extension_descriptions[1].trait = trait_item.ident
        /\ Len(IdEntries(attrs)) <= 1 =>
              expansion.extension_descriptions[1].id =
                  ExpectedId(IdEntries(attrs), trait_item.ident)
        /\ Len(Descriptors) = Len(Declared)
        /\ \A i \in 1..Len(Declared) :
              /\ Declared[i].kind = "Method"
              /\ Descriptors[i].trait = trait_item.ident
              /\ Descriptors[i].hash = into_u32(Declared[i].ident)
              /\ Descriptors[i].id =
                    ExpectedId(FirstObceEntries(Declared[i].attrs), Declared[i].ident)
              /\ IsTupleOf(Descriptors[i].input, TypedTypes(Declared[i].inputs))
              /\ Descriptors[i].output =
                    (IF Declared[i].output.kind = "Type"
                     THEN <<Declared[i].output.ty>> ELSE <<"(", ")">>)
        /\ \A i, j \in 1..Len(Declared) :
              into_u32(Declared[i].ident) # into_u32(Declared[j].ident) =>
                  Descriptors[i].hash # Descriptors[j].hash

(* Two methods that differ in name hash, id and input type.                *)
C12_Witness ==
    /\ Accepted
    /\ Len(Declared) = 2
    /\ Len(Descriptors) = 2
    /\ Len(expansion.extension_descriptions) = 1
    /\ Descriptors[1].hash # Descriptors[2].hash
    /\ Descriptors[1].id # Descriptors[2].id
    /\ into_u32(Declared[1].ident) # into_u32(Declared[2].ident)

-----------------------------------------------------------------------------
C13_WitnessCreated ==
    /\ Accepted
    /\ Len(Declared) >= 1
    /\ ~Declared[1].where_clause.some
    /\ CopyB.items[1].where_clause.some
    /\ Len(CopyB.items[1].where_clause.predicates) = 2

-----------------------------------------------------------------------------
(* the typed parameters of a signature, in declared order                  *)
TypedParams(inputs) == SelectSeq(inputs, LAMBDA arg : arg.kind # "Receiver")

(* C14: in the copy emitted under `ink` each synthesized body passes to    *)
(* call a reference to the tuple of the method's typed-parameter bindings, *)
(* in declared order and without the receiver: as many elements as the     *)
(* captured input type has, the k-th being the binding of the parameter    *)
(* whose declared type is the k-th element of the input type.              *)
C14_PayloadIsTypedBindings ==
    Accepted =>
        /\ TwoCopies
        /\ \A i \in 1..Len(Declared) :
              LET params == TypedParams(Declared[i].inputs)
                  body == CopyB.items[i].default
                  payload == Tail(body.call)
                  n == Len(params)
              IN  /\ body.kind = "ChainExtensionCall"
                  /\ Head(body.call) = "&"
                  /\ IsTupleOf(payload, [k \in 1..n |-> params[k].pat])
                  /\ IsTupleOf(body.input, [k \in 1..n |-> params[k].ty])
                  /\ Len(payload) = Len(body.input)
                  /\ body.input = Descriptors[i].input
                  /\ \A k \in 1..n : payload[2 * k] # "self"

(* A receiver and two typed parameters: the payload is the two bindings.   *)
C14_Witness ==
    /\ Accepted
    /\ Len(Declared) >= 1
    /\ Len(Declared[1].inputs) = 3
    /\ Declared[1].inputs[1].kind = "Receiver"
    /\ Len(TypedParams(Declared[1].inputs)) = 2
    /\ Declared[1].inputs[2].pat # Declared[1].inputs[3].pat
    /\ CopyB.items[1].default.call =
          <<"&", "(", Declared[1].inputs[2].pat, ",", Declared[1].inputs[3].pat, ")">>

-----------------------------------------------------------------------------
(* C15: the id macro on an empty path fails with the same error as on a    *)
(* path of three or more segments, the unsupported-path error.             *)
C15_EmptyPathSameError ==
    (pc = "looked_up" /\ Len(path) = 0) =>
        /\ lookup.reference = <<>>
        /\ lookup.compile_error = <<ERR_PATH>>

(* What the empty path does produce: the parser's own error, no reference. *)
C15_EmptyPathParseError ==
    (pc = "looked_up" /\ Len(path) = 0) =>
        /\ lookup.reference = <<>>
        /\ lookup.compile_error = <<ERR_PARSE_PATH>>

(* The id macro was applied to an empty path.                              *)
C15_Reached ==
    /\ pc = "looked_up"
    /\ path = <<>>
    /\ lookup.compile_error # <<>>

-----------------------------------------------------------------------------
HasObce(as) == \E k \in 1..Len(as) : as[k].path = "obce"

C16_WitnessLaterInvalid ==
    /\ Accepted
    /\ Len(Declared) >= 1
    /\ Declared[1].attrs = <<Obce(<<IdInt(456)>>), Obce(<<IdInt(65536)>>)>>
    /\ Descriptors[1].id = 456
    /\ CopyA.items[1].attrs = <<>>

=============================================================================
